---------------------------- MODULE Spec2Model ----------------------------
(***************************************************************************)
(* SmartHub admin front end: the session kept in localStorage, the shared  *)
(* API client (api/client.ts: request, apiGet, apiPost, ApiError), the     *)
(* auth hook (hooks/useAuth.ts), the header's logout (App.tsx) and the     *)
(* registration flow (pages/RegisterPage.tsx).                             *)
(*                                                                         *)
(* JavaScript values are modelled as follows.                              *)
(*   - "T | null" and "T | undefined" are sequences of length <= 1:        *)
(*     <<>> is null/undefined, <<v>> is the value v.                       *)
(*   - a JSON value is a record tagged by k: null, bool, num, str, obj     *)
(*     (members in insertion order, keys unique) or arr.                   *)
(*   - a response body is the sequence of its lexical tokens; its text is  *)
(*     the concatenation of their lexemes (RawText).                       *)
(***************************************************************************)
EXTENDS Integers, Sequences, FiniteSets, TLC

VARIABLES
  localStorage, \* the stored session: a function from the stored keys to strings
  calls,        \* the activations of request: pc idle -> fetching -> reading -> done
  reg,          \* the registration page: its flow position and its React state
  nav,          \* the router: the location, its state and the element rendered
  dash,         \* the Dashboard page: its React state and the activation of load
  list,         \* the mounted list page (Catalog, Users, Orders) and its activations
  toaster       \* the ToastProvider: its clock, its toasts and its pending timers

\* everything the routed pages own
view == <<nav, dash, list>>

vars == <<localStorage, calls, reg, nav, dash, list, toaster>>

-----------------------------------------------------------------------------
(* Bounds of the model.                                                    *)

\* number of shared-client calls that may be in flight at the same time
MaxCalls == 2
\* every token sequence up to this length is a response body of SpecDecode
MaxTextLen == 2
\* the last reading of the ToastProvider's clock
MaxNow == 4
\* number of toast timers that may be pending at the same time
MaxToasts == 3

-----------------------------------------------------------------------------
(* JSON values.                                                            *)

JNull == [k |-> "null"]
JBool(b) == [k |-> "bool", b |-> b]
JNum(n) == [k |-> "num", n |-> n]
JStr(s) == [k |-> "str", s |-> s]
JObj(members) == [k |-> "obj", o |-> members]
JArr(elems) == [k |-> "arr", a |-> elems]
Member(key, val) == [key |-> key, val |-> val]

\* index of the member named key in an object's member list, 0 when absent
RECURSIVE IndexOfKey(_, _, _)
IndexOfKey(members, key, i) ==
  IF i > Len(members) THEN 0
  ELSE IF members[i].key = key THEN i
  ELSE IndexOfKey(members, key, i + 1)

\* o[key] = val on a JS object: an existing key keeps its position
PutMember(members, key, val) ==
  LET i == IndexOfKey(members, key, 1) IN
  IF i = 0 THEN Append(members, Member(key, val))
  ELSE [members EXCEPT ![i] = Member(key, val)]

\* data.key in JS: <<>> (undefined) unless data is an object owning the key
GetProp(data, key) ==
  IF data.k = "obj" /\ IndexOfKey(data.o, key, 1) # 0
  THEN <<data.o[IndexOfKey(data.o, key, 1)].val>>
  ELSE <<>>

\* JS truthiness of a JSON value
Truthy(v) ==
  CASE v.k = "null" -> FALSE
    [] v.k = "bool" -> v.b
    [] v.k = "num" -> v.n # 0
    [] v.k = "str" -> v.s # ""
    [] OTHER -> TRUE

Digit(d) ==
  CASE d = 0 -> "0" [] d = 1 -> "1" [] d = 2 -> "2" [] d = 3 -> "3"
    [] d = 4 -> "4" [] d = 5 -> "5" [] d = 6 -> "6" [] d = 7 -> "7"
    [] d = 8 -> "8" [] d = 9 -> "9"

\* decimal rendering of a natural number, as `${n}` and String(n) produce it
RECURSIVE DecStr(_)
DecStr(n) == IF n < 10 THEN Digit(n) ELSE DecStr(n \div 10) \o Digit(n % 10)

\* String(v), the conversion the Error constructor applies to its message
RECURSIVE JSString(_)
RECURSIVE JoinElems(_, _)
JoinElems(elems, i) ==
  IF i > Len(elems) THEN ""
  ELSE (IF i > 1 THEN "," ELSE "")
       \o (IF elems[i].k = "null" THEN "" ELSE JSString(elems[i]))
       \o JoinElems(elems, i + 1)
JSString(v) ==
  CASE v.k = "null" -> "null"
    [] v.k = "bool" -> (IF v.b THEN "true" ELSE "false")
    [] v.k = "num" -> DecStr(v.n)
    [] v.k = "str" -> v.s
    [] v.k = "obj" -> "[object Object]"
    [] v.k = "arr" -> JoinElems(v.a, 1)

-----------------------------------------------------------------------------
(* Response bodies: tokens, text, JSON.parse and JSON.stringify.           *)

Punct(c) == [t |-> "punct", lex |-> c]
Lit(c) == [t |-> "lit", lex |-> c]
NumTok(n) == [t |-> "num", n |-> n]
StrTok(s) == [t |-> "str", s |-> s]
Junk == [t |-> "junk", lex |-> "<html>"]
Ws == [t |-> "ws", lex |-> " "]

Lexeme(tok) ==
  CASE tok.t = "num" -> DecStr(tok.n)
    [] tok.t = "str" -> "\"" \o tok.s \o "\""
    [] OTHER -> tok.lex

\* the body as resp.text() delivers it
RECURSIVE RawText(_)
RawText(toks) ==
  IF toks = <<>> THEN "" ELSE Lexeme(Head(toks)) \o RawText(Tail(toks))

IsPunct(tok, c) == tok.t = "punct" /\ tok.lex = c

ParseFail == [ok |-> FALSE, val |-> JNull, rest |-> <<>>]
ParseOk(v, rest) == [ok |-> TRUE, val |-> v, rest |-> rest]

RECURSIVE ParseValue(_)
RECURSIVE ParseMembers(_, _)
RECURSIVE ParseElements(_, _)

ParseValue(toks) ==
  IF toks = <<>> THEN ParseFail
  ELSE LET h == Head(toks)
           r == Tail(toks)
       IN CASE h.t = "lit" ->
                 ParseOk(CASE h.lex = "null" -> JNull
                           [] h.lex = "true" -> JBool(TRUE)
                           [] h.lex = "false" -> JBool(FALSE), r)
            [] h.t = "num" -> ParseOk(JNum(h.n), r)
            [] h.t = "str" -> ParseOk(JStr(h.s), r)
            [] IsPunct(h, "{") ->
                 IF r # <<>> /\ IsPunct(Head(r), "}")
                 THEN ParseOk(JObj(<<>>), Tail(r))
                 ELSE ParseMembers(r, <<>>)
            [] IsPunct(h, "[") ->
                 IF r # <<>> /\ IsPunct(Head(r), "]")
                 THEN ParseOk(JArr(<<>>), Tail(r))
                 ELSE ParseElements(r, <<>>)
            [] OTHER -> ParseFail

ParseMembers(toks, acc) ==
  IF Len(toks) >= 2 /\ toks[1].t = "str" /\ IsPunct(toks[2], ":")
  THEN LET v == ParseValue(SubSeq(toks, 3, Len(toks)))
           acc2 == PutMember(acc, toks[1].s, v.val)
       IN IF ~v.ok \/ v.rest = <<>> THEN ParseFail
          ELSE IF IsPunct(Head(v.rest), "}") THEN ParseOk(JObj(acc2), Tail(v.rest))
          ELSE IF IsPunct(Head(v.rest), ",") THEN ParseMembers(Tail(v.rest), acc2)
          ELSE ParseFail
  ELSE ParseFail

ParseElements(toks, acc) ==
  LET v == ParseValue(toks)
      acc2 == Append(acc, v.val)
  IN IF ~v.ok \/ v.rest = <<>> THEN ParseFail
     ELSE IF IsPunct(Head(v.rest), "]") THEN ParseOk(JArr(acc2), Tail(v.rest))
     ELSE IF IsPunct(Head(v.rest), ",") THEN ParseElements(Tail(v.rest), acc2)
     ELSE ParseFail

IsWs(tok) == tok.t = "ws"
NotWs(tok) == ~IsWs(tok)

\* JSON.parse(text): ok = FALSE stands for the SyntaxError it throws
JSONParse(toks) ==
  LET v == ParseValue(SelectSeq(toks, NotWs)) IN
  IF v.ok /\ v.rest = <<>> THEN ParseOk(v.val, <<>>) ELSE ParseFail

\* JSON.stringify(v) as a token sequence
RECURSIVE JSONStringify(_)
RECURSIVE StringifyMembers(_, _)
RECURSIVE StringifyElems(_, _)
StringifyMembers(members, i) ==
  IF i > Len(members) THEN <<>>
  ELSE (IF i > 1 THEN <<Punct(",")>> ELSE <<>>)
       \o <<StrTok(members[i].key), Punct(":")>>
       \o JSONStringify(members[i].val)
       \o StringifyMembers(members, i + 1)
StringifyElems(elems, i) ==
  IF i > Len(elems) THEN <<>>
  ELSE (IF i > 1 THEN <<Punct(",")>> ELSE <<>>)
       \o JSONStringify(elems[i])
       \o StringifyElems(elems, i + 1)
JSONStringify(v) ==
  CASE v.k = "null" -> <<Lit("null")>>
    [] v.k = "bool" -> <<Lit(IF v.b THEN "true" ELSE "false")>>
    [] v.k = "num" -> <<NumTok(v.n)>>
    [] v.k = "str" -> <<StrTok(v.s)>>
    [] v.k = "obj" -> <<Punct("{")>> \o StringifyMembers(v.o, 1) \o <<Punct("}")>>
    [] v.k = "arr" -> <<Punct("[")>> \o StringifyElems(v.a, 1) \o <<Punct("]")>>

-----------------------------------------------------------------------------
(* The session store: three localStorage slots.                            *)

StorageKeys == {"authToken", "authUsername", "authRole"}

\* localStorage.getItem(key): <<>> is null
getItem(store, key) == IF key \in DOMAIN store THEN <<store[key]>> ELSE <<>>

\* localStorage.setItem(key, value)
setItem(store, key, value) ==
  [x \in DOMAIN store \cup {key} |-> IF x = key THEN value ELSE store[x]]

\* localStorage.removeItem(key)
removeItem(store, key) == [x \in DOMAIN store \ {key} |-> store[x]]

EmptyStorage == [x \in {} |-> ""]

\* truthiness of a "string | null"
TruthyStr(opt) == opt # <<>> /\ opt[1] # ""

getAuthToken == getItem(localStorage, "authToken")

\* what useAuth() returns for the storage as it is now
useAuth ==
  [token |-> getItem(localStorage, "authToken"),
   username |-> getItem(localStorage, "authUsername"),
   role |-> IF TruthyStr(getItem(localStorage, "authRole"))
            THEN localStorage["authRole"] ELSE "user",
   isAuthenticated |-> TruthyStr(getItem(localStorage, "authToken"))]

-----------------------------------------------------------------------------
(* The shared API client.                                                  *)

Calls == 1..MaxCalls

\* the ApiError a failed request throws
ApiError(message, status, data) ==
  [kind |-> "throw", name |-> "ApiError", message |-> message,
   status |-> <<status>>, data |-> <<data>>, value |-> <<>>]

\* the rejection of fetch itself, which request does not catch
FetchTypeError ==
  [kind |-> "throw", name |-> "TypeError", message |-> "Failed to fetch",
   status |-> <<>>, data |-> <<>>, value |-> <<>>]

\* request returning data
Returned(data) ==
  [kind |-> "return", name |-> "", message |-> "",
   status |-> <<>>, data |-> <<>>, value |-> <<data>>]

IdleCall ==
  [pc |-> "idle", req |-> <<>>, status |-> <<>>, text |-> <<>>, outcome |-> <<>>]

\* BuildHeaders sending the bare token, without the Bearer scheme
BuildHeadersNoScheme(token) ==
  IF TruthyStr(token)
  THEN [x \in {"Content-Type", "Authorization"} |->
          IF x = "Authorization" THEN token[1] ELSE "application/json"]
  ELSE [x \in {"Content-Type"} |-> "application/json"]

\* BuildHeaders without the test of the token: `Bearer ${token}` in every request
BuildHeadersAlways(token) ==
  [x \in {"Content-Type", "Authorization"} |->
     IF x = "Authorization"
     THEN "Bearer " \o (IF token = <<>> THEN "null" ELSE token[1])
     ELSE "application/json"]

\* the headers request sends: options.headers is never set by apiGet/apiPost
BuildHeaders(token) ==
  LET base == [x \in {"Content-Type"} |-> "application/json"] IN
  IF TruthyStr(token)
  THEN [x \in {"Content-Type", "Authorization"} |->
          IF x = "Authorization" THEN "Bearer " \o token[1] ELSE base[x]]
  ELSE base

\* the activation of request awaiting fetch: the token is read when it is called
Fetching(method, body) ==
  [pc |-> "fetching",
   req |-> <<[method |-> method,
              headers |-> BuildHeaders(getAuthToken),
              body |-> body]>>,
   status |-> <<>>, text |-> <<>>, outcome |-> <<>>]

\* request, up to the point where it awaits fetch
request(c, method, body) ==
  /\ calls[c].pc = "idle"
  /\ calls' = [calls EXCEPT ![c] = Fetching(method, body)]
  /\ UNCHANGED <<toaster, localStorage, reg, view>>

apiGet(c) == request(c, "GET", <<>>)

\* body ? JSON.stringify(body) : undefined
apiPost(c, body) ==
  request(c, "POST",
          IF body # <<>> /\ Truthy(body[1]) THEN <<JSONStringify(body[1])>> ELSE <<>>)

\* fetch resolves with a response of the given status; the request is gone
fetchResolved(c, status) ==
  /\ calls[c].pc = "fetching"
  /\ calls' = [calls EXCEPT ![c].pc = "reading", ![c].req = <<>>,
                            ![c].status = <<status>>]
  /\ UNCHANGED <<toaster, localStorage, reg, view>>

\* fetch rejects (no response obtained): the rejection leaves request as it is
fetchRejected(c) ==
  /\ calls[c].pc = "fetching"
  /\ calls' = [calls EXCEPT ![c].pc = "done", ![c].req = <<>>,
                            ![c].outcome = <<FetchTypeError>>]
  /\ UNCHANGED <<toaster, localStorage, reg, view>>

\* resp.ok taken as "below 400"
RespOkBelow400(status) == 200 <= status /\ status < 400

\* resp.ok
RespOk(status) == 200 <= status /\ status <= 299

\* DecodeBody without JSON.parse: the text itself
DecodeBodyUnparsed(toks) ==
  IF RawText(toks) = "" THEN JNull ELSE JStr(RawText(toks))

\* DecodeBody whose catch block leaves data null
DecodeBodyNullOnFailure(toks) ==
  IF RawText(toks) = "" THEN JNull
  ELSE IF JSONParse(toks).ok THEN JSONParse(toks).val
  ELSE JNull

\* data = text ? JSON.parse(text) : null, falling back to text || null
DecodeBody(toks) ==
  LET text == RawText(toks)
      parsed == JSONParse(toks)
  IN IF text = "" THEN JNull
     ELSE IF parsed.ok THEN parsed.val
     ELSE IF text # "" THEN JStr(text) ELSE JNull

\* ErrorMessage reading data.message alone
ErrorMessageOnlyMessage(data, status) ==
  LET message == GetProp(data, "message") IN
  IF Truthy(data) /\ message # <<>> /\ Truthy(message[1]) THEN JSString(message[1])
  ELSE "Request failed with status " \o DecStr(status)

\* ErrorMessage without the "data &&" guard: reading a property of null throws
ErrorMessageNoNullGuard(data, status) ==
  LET detail == GetProp(data, "detail")
      message == GetProp(data, "message")
  IN IF data.k = "null" THEN "Cannot read properties of null (reading 'detail')"
     ELSE IF detail # <<>> /\ Truthy(detail[1]) THEN JSString(detail[1])
     ELSE IF message # <<>> /\ Truthy(message[1]) THEN JSString(message[1])
     ELSE "Request failed with status " \o DecStr(status)

\* (data && (data.detail || data.message)) || `Request failed with status ...`
ErrorMessage(data, status) ==
  LET detail == GetProp(data, "detail")
      message == GetProp(data, "message")
  IN IF Truthy(data) /\ detail # <<>> /\ Truthy(detail[1]) THEN JSString(detail[1])
     ELSE IF Truthy(data) /\ message # <<>> /\ Truthy(message[1])
          THEN JSString(message[1])
     ELSE "Request failed with status " \o DecStr(status)

\* the 401 branch removing the display name only
StorageAfterResponseKeepsToken(store, status) ==
  IF ~(200 <= status /\ status <= 299) /\ status = 401
  THEN removeItem(store, "authUsername")
  ELSE store

\* the session cleared by every failed response, not by 401 alone
StorageAfterResponseAnyFailure(store, status) ==
  IF ~RespOk(status)
  THEN removeItem(removeItem(store, "authToken"), "authUsername")
  ELSE store

\* the storage after the 401 branch of request
StorageAfterResponse(store, status) ==
  IF ~RespOk(status) /\ status = 401
  THEN removeItem(removeItem(store, "authToken"), "authUsername")
  ELSE store

\* what request throws or returns for a response
Outcome(status, toks) ==
  LET data == DecodeBody(toks) IN
  IF ~RespOk(status) THEN ApiError(ErrorMessage(data, status), status, data)
  ELSE Returned(data)

\* resp.text() resolves: request runs to its end without a further await
textResolved(c, toks) ==
  /\ calls[c].pc = "reading"
  /\ localStorage' = StorageAfterResponse(localStorage, calls[c].status[1])
  /\ calls' = [calls EXCEPT ![c].pc = "done", ![c].text = <<toks>>,
                            ![c].outcome = <<Outcome(calls[c].status[1], toks)>>]
  /\ UNCHANGED <<toaster, reg, view>>

\* the call the Dashboard's load is awaiting, if any
AwaitedByLoad(c) == dash.pc \in {"health", "summary"} /\ dash.call = c

\* the caller has taken the result; the slot serves the next call
Release(c) ==
  /\ calls[c].pc = "done"
  /\ ~AwaitedByLoad(c)
  /\ calls' = [calls EXCEPT ![c] = IdleCall]
  /\ UNCHANGED <<toaster, localStorage, reg, view>>

-----------------------------------------------------------------------------
(* The router (App.tsx, components/RequireAuth.tsx).                       *)

\* the paths of the NavLinks, the registration page and a path without a route
NavPaths == {"/", "/login", "/users", "/catalog", "/orders", "/admin/health"}
Paths == NavPaths \cup {"/register", "/missing"}

\* the routes wrapped in RequireAuth
Protected(path) == path \in {"/", "/users", "/catalog", "/orders", "/admin/health"}

\* the page of each route; path="*" answers every other path
RouteElement(path) ==
  CASE path = "/register" -> "RegisterPage"
    [] path = "/login" -> "LoginPage"
    [] path = "/" -> "DashboardPage"
    [] path = "/users" -> "UsersPage"
    [] path = "/catalog" -> "CatalogPage"
    [] path = "/orders" -> "OrdersPage"
    [] path = "/admin/health" -> "AdminHealthPage"
    [] OTHER -> "NotFound"

\* navigate(to, { state }): the location changes, the routes render later;
\* denied is the path RequireAuth last turned away, if that is how we got here
navigate(to, state) ==
  [path |-> to, state |-> state, shown |-> nav.shown, stale |-> TRUE,
   denied |-> <<>>]

\* RequireAuth testing the stored token against null instead of its truthiness
RequireAuthTokenNotNull(path) ==
  IF getItem(localStorage, "authToken") = <<>>
  THEN [element |-> "Navigate", to |-> "/login", state |-> <<>>]
  ELSE [element |-> RouteElement(path), to |-> path, state |-> nav.state]

\* RequireAuth around the page of a protected path
RequireAuth(path) ==
  IF ~useAuth.isAuthenticated
  THEN [element |-> "Navigate", to |-> "/login", state |-> <<>>]
  ELSE [element |-> RouteElement(path), to |-> path, state |-> nav.state]

-----------------------------------------------------------------------------
(* Logout.                                                                 *)

\* the role reset by writing the default instead of removing the key
ClearSessionResetsRole(store) ==
  setItem(removeItem(removeItem(store, "authToken"), "authUsername"),
          "authRole", "user")

\* the three removeItem calls of useAuth().logout
ClearSession(store) ==
  removeItem(removeItem(removeItem(store, "authToken"), "authUsername"),
             "authRole")

\* the two removeItem calls of Header.handleLogout
HeaderClear(store) ==
  removeItem(removeItem(store, "authToken"), "authUsername")

\* useAuth().logout
logout ==
  /\ localStorage' = ClearSession(localStorage)
  /\ UNCHANGED <<toaster, calls, reg, view>>

\* Header.handleLogout
handleLogout ==
  /\ localStorage' = HeaderClear(localStorage)
  /\ nav' = navigate("/login", <<>>)
  /\ UNCHANGED <<toaster, calls, reg, dash, list>>

-----------------------------------------------------------------------------
(* Login (pages/LoginPage.tsx): on success it writes the session triple.   *)

loginSuccess(token, username, role) ==
  /\ localStorage' =
       setItem(setItem(setItem(localStorage, "authToken", token),
                       "authUsername", username), "authRole", role)
  /\ UNCHANGED <<toaster, calls, reg, view>>

-----------------------------------------------------------------------------
(* Registration (pages/RegisterPage.tsx, handleSubmit). The page's         *)
(* messages are Russian in the source and transliterated here.             *)

RegIdle ==
  [pc |-> "idle", username |-> "", loading |-> FALSE, error |-> <<>>,
   res |-> <<>>, loginRes |-> <<>>]

MsgFillAll == "Zapolnite vse polya"
MsgAutoLogin(status) == "Oshibka avto-vhoda (HTTP " \o DecStr(status) \o ")"
MsgSyntaxError == "Unexpected token"
MsgNullRead == "Cannot read properties of null"

\* the catch and finally blocks of handleSubmit: err.message is never empty here
RegFailed(msg) ==
  [reg EXCEPT !.pc = "idle", !.error = <<msg>>, !.loading = FALSE,
              !.res = <<>>, !.loginRes = <<>>]

\* the submit handler up to its first await; the button is disabled while loading
handleSubmit(username, email, password) ==
  /\ reg.pc = "idle"
  /\ ~reg.loading
  /\ reg' = IF username = "" \/ email = "" \/ password = ""
            THEN [reg EXCEPT !.error = <<MsgFillAll>>]
            ELSE [reg EXCEPT !.pc = "registering", !.username = username,
                             !.error = <<>>, !.loading = TRUE]
  /\ UNCHANGED <<toaster, localStorage, calls, view>>

\* the message of a refused registration: the body's detail when it is a string
RegisterErrorMessage(status, toks) ==
  LET parsed == JSONParse(toks)
      detail == IF parsed.ok /\ parsed.val.k # "null"
                THEN GetProp(parsed.val, "detail") ELSE <<>>
  IN IF detail # <<>> /\ detail[1].k = "str" THEN detail[1].s
     ELSE "HTTP " \o DecStr(status)

\* POST /register resolves
registerResolved(status, toks) ==
  /\ reg.pc = "registering"
  /\ reg' = IF ~RespOk(status)
            THEN RegFailed(RegisterErrorMessage(status, toks))
            ELSE [reg EXCEPT !.pc = "loggingIn", !.res = <<status>>]
  /\ UNCHANGED <<toaster, localStorage, calls, view>>

\* POST /login resolves, its status not looked at
loginResolvedAnyStatus(status) ==
  /\ reg.pc = "loggingIn"
  /\ reg' = [reg EXCEPT !.pc = "loginJson", !.loginRes = <<status>>]
  /\ UNCHANGED <<toaster, localStorage, calls, view>>

\* POST /login resolves
loginResolved(status) ==
  /\ reg.pc = "loggingIn"
  /\ reg' = IF ~RespOk(status)
            THEN RegFailed(MsgAutoLogin(status))
            ELSE [reg EXCEPT !.pc = "loginJson", !.loginRes = <<status>>]
  /\ UNCHANGED <<toaster, localStorage, calls, view>>

\* either fetch of the flow rejects
registerFetchRejected ==
  /\ reg.pc \in {"registering", "loggingIn"}
  /\ reg' = RegFailed("Failed to fetch")
  /\ UNCHANGED <<toaster, localStorage, calls, view>>

\* String(loginData.access_token), as setItem stores it
AccessTokenString(loginData) ==
  LET t == GetProp(loginData, "access_token") IN
  IF t = <<>> THEN "undefined" ELSE JSString(t[1])

\* loginJsonResolved writing the token alone before it navigates
loginJsonResolvedTokenOnly(toks) ==
  /\ reg.pc = "loginJson"
  /\ LET parsed == JSONParse(toks) IN
     IF ~parsed.ok
     THEN /\ reg' = RegFailed(MsgSyntaxError)
          /\ UNCHANGED <<toaster, localStorage, nav>>
     ELSE IF parsed.val.k = "null"
     THEN /\ reg' = RegFailed(MsgNullRead)
          /\ UNCHANGED <<toaster, localStorage, nav>>
     ELSE /\ localStorage' =
               setItem(localStorage, "authToken", AccessTokenString(parsed.val))
          /\ nav' = navigate("/", <<>>)
          /\ reg' = [reg EXCEPT !.pc = "idle", !.loading = FALSE,
                                !.res = <<>>, !.loginRes = <<>>]
  /\ UNCHANGED <<toaster, calls, dash, list>>

\* loginRes.json() settles: the session is written and the page navigates to "/"
loginJsonResolved(toks) ==
  /\ reg.pc = "loginJson"
  /\ LET parsed == JSONParse(toks) IN
     IF ~parsed.ok
     THEN /\ reg' = RegFailed(MsgSyntaxError)
          /\ UNCHANGED <<toaster, localStorage, nav>>
     ELSE IF parsed.val.k = "null"
     THEN /\ reg' = RegFailed(MsgNullRead)
          /\ UNCHANGED <<toaster, localStorage, nav>>
     ELSE /\ localStorage' =
               setItem(setItem(localStorage, "authToken",
                               AccessTokenString(parsed.val)),
                       "authUsername", reg.username)
          /\ nav' = navigate("/", <<>>)
          /\ reg' = [reg EXCEPT !.pc = "idle", !.loading = FALSE,
                                !.res = <<>>, !.loginRes = <<>>]
  /\ UNCHANGED <<toaster, calls, dash, list>>

-----------------------------------------------------------------------------
(* The Dashboard (pages/DashboardPage.tsx): its state and the load its     *)
(* effect runs once per mount.                                             *)

MsgSessionExpired == "Sessiya istekla, voydite zanovo"
MsgHealthFailed == "Oshibka zaprosa /health"
MsgSummaryFailed == "Oshibka zaprosa /summary"

\* the component's state as useState creates it; pc is the position of load,
\* issued the paths it has requested, toasts its latest showToast calls
DashMounted ==
  [pc |-> "mounted", call |-> 0, issued |-> <<>>,
   health |-> <<>>, healthError |-> <<>>,
   summary |-> <<>>, summaryError |-> <<>>,
   loading |-> TRUE, toasts |-> <<>>]

\* no Dashboard has been mounted yet
DashNone == [DashMounted EXCEPT !.pc = "none"]

\* e.status === 401 read as "the request failed"
IsUnauthorizedAnyFailure(outcome) == outcome.kind = "throw"

\* e.status === 401
IsUnauthorized(outcome) == outcome.status = <<401>>

\* e.message || fallback
MessageOr(outcome, fallback) ==
  IF outcome.message # "" THEN outcome.message ELSE fallback

\* the 401 branch of either catch block: toast, redirect, loading off, return
DashExpired(d) ==
  [d EXCEPT !.toasts = <<[type |-> "error", message |-> MsgSessionExpired]>>,
            !.loading = FALSE, !.pc = "ended", !.call = 0]

\* the effect: load up to its first await
load(c) ==
  /\ dash.pc = "mounted"
  /\ nav.shown = "DashboardPage"
  /\ calls[c].pc = "idle"
  /\ dash' = [dash EXCEPT !.loading = TRUE, !.healthError = <<>>,
                          !.summaryError = <<>>, !.pc = "health", !.call = c,
                          !.issued = <<"/health">>]
  /\ calls' = [calls EXCEPT ![c] = Fetching("GET", <<>>)]
  /\ UNCHANGED <<toaster, localStorage, reg, nav, list>>

\* apiGet("/health") settles: load runs on to its second await or returns
healthSettled ==
  /\ dash.pc = "health"
  /\ calls[dash.call].pc = "done"
  /\ LET c == dash.call
         o == calls[c].outcome[1]
         d == IF o.kind = "return"
              THEN [dash EXCEPT !.health = o.value]
              ELSE [dash EXCEPT !.healthError = <<MessageOr(o, MsgHealthFailed)>>]
     IN IF o.kind = "throw" /\ IsUnauthorized(o)
        THEN /\ dash' = DashExpired(d)
             /\ nav' = navigate("/login", <<[from |-> "/"]>>)
             /\ calls' = [calls EXCEPT ![c] = IdleCall]
        ELSE /\ dash' = [d EXCEPT !.pc = "summary",
                                  !.issued = Append(@, "/summary")]
             /\ calls' = [calls EXCEPT ![c] = Fetching("GET", <<>>)]
             /\ UNCHANGED <<toaster, nav>>
  /\ UNCHANGED <<toaster, localStorage, reg, list>>

\* apiGet("/summary") settles: load runs to its end
summarySettled ==
  /\ dash.pc = "summary"
  /\ calls[dash.call].pc = "done"
  /\ LET c == dash.call
         o == calls[c].outcome[1]
         d == IF o.kind = "return"
              THEN [dash EXCEPT !.summary = o.value]
              ELSE [dash EXCEPT !.summaryError = <<MessageOr(o, MsgSummaryFailed)>>]
     IN /\ IF o.kind = "throw" /\ IsUnauthorized(o)
           THEN /\ dash' = DashExpired(d)
                /\ nav' = navigate("/login", <<[from |-> "/"]>>)
           ELSE /\ dash' = [d EXCEPT !.loading = FALSE, !.pc = "ended", !.call = 0]
                /\ UNCHANGED <<toaster, nav>>
        /\ calls' = [calls EXCEPT ![c] = IdleCall]
  /\ UNCHANGED <<toaster, localStorage, reg, list>>

-----------------------------------------------------------------------------
(* The list pages (pages/CatalogPage.tsx, UsersPage.tsx, OrdersPage.tsx).  *)
(* One of them is mounted at a time; list is its React state, the position *)
(* of its loads (loads) and of its create handler (create), and the        *)
(* showToast calls of its latest step (toasts). The text of an input is    *)
(* the sequence of its characters.                                         *)

MsgProductsFailed == "Ne udalos zagruzit tovary"
MsgUsersFailed == "Ne udalos zagruzit polzovateley"
MsgOrdersFailed == "Ne udalos zagruzit zakazy"
MsgEnterUsername == "Vvedite username"
MsgEnterName == "Vvedite imya tovara"
MsgEnterPrice == "Vvedite korrektnuyu cenu (> 0)"
MsgChooseUser == "Vyberite polzovatelya"
MsgChooseProduct == "Vyberite tovar"
MsgQuantity == "Kolichestvo dolzhno byt > 0"
MsgCreateUserFailed == "Oshibka pri sozdanii polzovatelya"
MsgCreateProductFailed == "Oshibka pri sozdanii tovara"
MsgCreateOrderFailed == "Oshibka pri sozdanii zakaza"
MsgOrderCreated == "Zakaz sozdan uspeshno"

\* the calls of a load: by the mount effect, by handleCreate, and the two
\* further mount-time loads of the Orders page
LoadIds == {"mount", "reload", "users", "products"}
NoLoads == [l \in LoadIds |-> "idle"]

DigitChars == {"0", "1", "2", "3", "4", "5", "6", "7", "8", "9"}
DigitValue(ch) ==
  CASE ch = "0" -> 0 [] ch = "1" -> 1 [] ch = "2" -> 2 [] ch = "3" -> 3
    [] ch = "4" -> 4 [] ch = "5" -> 5 [] ch = "6" -> 6 [] ch = "7" -> 7
    [] ch = "8" -> 8 [] ch = "9" -> 9

RECURSIVE TrimStart(_)
TrimStart(s) == IF s # <<>> /\ Head(s) = " " THEN TrimStart(Tail(s)) ELSE s

RECURSIVE LeadingDigits(_)
LeadingDigits(s) ==
  IF s # <<>> /\ Head(s) \in DigitChars
  THEN <<Head(s)>> \o LeadingDigits(Tail(s))
  ELSE <<>>

RECURSIVE DigitsValue(_)
DigitsValue(ds) ==
  IF ds = <<>> THEN 0
  ELSE 10 * DigitsValue(SubSeq(ds, 1, Len(ds) - 1)) + DigitValue(ds[Len(ds)])

\* the sign of a numeral and what follows it
Signed(s) ==
  IF s # <<>> /\ Head(s) \in {"+", "-"}
  THEN [neg |-> Head(s) = "-", rest |-> Tail(s)]
  ELSE [neg |-> FALSE, rest |-> s]

\* parseInt(s, 10): <<>> is NaN
parseInt(s) ==
  LET t == Signed(TrimStart(s))
      ds == LeadingDigits(t.rest)
  IN IF ds = <<>> THEN <<>>
     ELSE <<IF t.neg THEN 0 - DigitsValue(ds) ELSE DigitsValue(ds)>>

\* parseFloat(s) of a decimal numeral without exponent: <<>> is NaN, else the
\* sign, the integer part and the digits of the fraction
parseFloat(s) ==
  LET t == Signed(TrimStart(s))
      int == LeadingDigits(t.rest)
      after == SubSeq(t.rest, Len(int) + 1, Len(t.rest))
      frac == IF after # <<>> /\ Head(after) = "."
              THEN LeadingDigits(Tail(after)) ELSE <<>>
  IN IF int = <<>> /\ frac = <<>> THEN <<>>
     ELSE <<[neg |-> t.neg, int |-> DigitsValue(int), frac |-> frac]>>

\* value <= 0 for a parsed float
NotPositive(v) == v.neg \/ (v.int = 0 /\ \A i \in 1..Len(v.frac) : v.frac[i] = "0")

\* CatalogPage after its first render
CatalogMounted ==
  [kind |-> "catalog", effect |-> TRUE, loads |-> NoLoads, create |-> "idle",
   toasts |-> <<>>,
   products |-> JArr(<<>>), loading |-> TRUE, error |-> <<>>,
   name |-> <<>>, price |-> <<>>, inStock |-> TRUE,
   creating |-> FALSE, createError |-> <<>>]

\* UsersPage after its first render
UsersMounted ==
  [kind |-> "users", effect |-> TRUE, loads |-> NoLoads, create |-> "idle",
   toasts |-> <<>>,
   users |-> JArr(<<>>), loading |-> TRUE, error |-> <<>>,
   username |-> <<>>, email |-> <<>>,
   creating |-> FALSE, createError |-> <<>>]

\* OrdersPage after its first render
OrdersMounted ==
  [kind |-> "orders", effect |-> TRUE, loads |-> NoLoads, create |-> "idle",
   toasts |-> <<>>,
   orders |-> JArr(<<>>), ordersLoading |-> TRUE, ordersError |-> <<>>,
   users |-> JArr(<<>>), usersError |-> <<>>,
   products |-> JArr(<<>>), productsError |-> <<>>,
   userId |-> <<>>, productId |-> <<>>, quantity |-> <<"1">>,
   creating |-> FALSE, createError |-> <<>>]

\* no list page is mounted
NoList == [kind |-> "none"]

\* CatalogPage.loadProducts: the state it sets
CatalogLoadProducts ==
  [data |-> "products", loading |-> <<"loading">>, error |-> "error",
   fallback |-> MsgProductsFailed, toast |-> <<>>]

\* UsersPage.loadUsers
UsersLoadUsers ==
  [data |-> "users", loading |-> <<"loading">>, error |-> "error",
   fallback |-> MsgUsersFailed, toast |-> <<>>]

\* OrdersPage.loadOrders
OrdersLoadOrders ==
  [data |-> "orders", loading |-> <<"ordersLoading">>, error |-> "ordersError",
   fallback |-> MsgOrdersFailed, toast |-> <<"Oshibka zagruzki zakazov: ">>]

\* OrdersPage.loadUsers reporting its failure as the orders' error
OrdersLoadUsersIntoOrdersError ==
  [data |-> "users", loading |-> <<>>, error |-> "ordersError",
   fallback |-> MsgUsersFailed, toast |-> <<"Oshibka zagruzki polzovateley: ">>]

\* OrdersPage.loadUsers
OrdersLoadUsers ==
  [data |-> "users", loading |-> <<>>, error |-> "usersError",
   fallback |-> MsgUsersFailed, toast |-> <<"Oshibka zagruzki polzovateley: ">>]

\* OrdersPage.loadProducts
OrdersLoadProducts ==
  [data |-> "products", loading |-> <<>>, error |-> "productsError",
   fallback |-> MsgProductsFailed, toast |-> <<"Oshibka zagruzki tovarov: ">>]

\* the load function a call belongs to
LoadOf(kind, l) ==
  CASE kind = "catalog" -> CatalogLoadProducts
    [] kind = "users" -> UsersLoadUsers
    [] kind = "orders" /\ l = "users" -> OrdersLoadUsers
    [] kind = "orders" /\ l = "products" -> OrdersLoadProducts
    [] OTHER -> OrdersLoadOrders

\* the state every step of the page starts from: its own showToast calls
Fresh == [list EXCEPT !.toasts = <<>>]

\* a load up to its await of fetch
LoadBegin(p, l) ==
  LET f == LoadOf(p.kind, l)
      p1 == IF f.loading # <<>> THEN [p EXCEPT ![f.loading[1]] = TRUE] ELSE p
  IN [p1 EXCEPT ![f.error] = <<>>, !.loads[l] = "fetching"]

\* LoadFailed with setLoading(false) at the end of the try block, not in finally
LoadFailedKeepsLoading(p, l, message) ==
  LET f == LoadOf(p.kind, l)
      msg == IF message # "" THEN message ELSE f.fallback
      p1 == [p EXCEPT ![f.error] = <<msg>>, !.loads[l] = "idle"]
  IN IF f.toast # <<>>
     THEN [p1 EXCEPT !.toasts =
             Append(@, [type |-> "error", message |-> f.toast[1] \o msg])]
     ELSE p1

\* the catch and finally blocks of a load; err?.message || fallback
LoadFailed(p, l, message) ==
  LET f == LoadOf(p.kind, l)
      msg == IF message # "" THEN message ELSE f.fallback
      p1 == [p EXCEPT ![f.error] = <<msg>>, !.loads[l] = "idle"]
      p2 == IF f.toast # <<>>
            THEN [p1 EXCEPT !.toasts =
                    Append(@, [type |-> "error", message |-> f.toast[1] \o msg])]
            ELSE p1
  IN IF f.loading # <<>> THEN [p2 EXCEPT ![f.loading[1]] = FALSE] ELSE p2

\* the end of the try block of a load, and its finally block
LoadSucceeded(p, l, data) ==
  LET f == LoadOf(p.kind, l)
      p1 == [p EXCEPT ![f.data] = data, !.loads[l] = "idle"]
  IN IF f.loading # <<>> THEN [p1 EXCEPT ![f.loading[1]] = FALSE] ELSE p1

\* handleCreate after "await load...()": the load never rejects
AfterReload(p) ==
  LET q == [p EXCEPT !.creating = FALSE, !.create = "idle"] IN
  CASE p.kind = "users" -> [q EXCEPT !.username = <<>>, !.email = <<>>]
    [] p.kind = "catalog" ->
         [q EXCEPT !.name = <<>>, !.price = <<>>, !.inStock = TRUE]
    [] p.kind = "orders" ->
         [q EXCEPT !.toasts = Append(@, [type |-> "success",
                                         message |-> MsgOrderCreated]),
                   !.userId = <<>>, !.productId = <<>>, !.quantity = <<"1">>]

\* a load has run to its end: handleCreate goes on if it was awaiting it
Resumed(p, l) == IF l = "reload" THEN AfterReload(p) ELSE p

\* CreateFailed with setCreating(false) at the end of the try block, not in finally
CreateFailedKeepsCreating(p, message) ==
  LET fallback == CASE p.kind = "users" -> MsgCreateUserFailed
                    [] p.kind = "catalog" -> MsgCreateProductFailed
                    [] p.kind = "orders" -> MsgCreateOrderFailed
      msg == IF message # "" THEN message ELSE fallback
      q == [p EXCEPT !.createError = <<msg>>, !.create = "idle"]
  IN IF p.kind = "orders"
     THEN [q EXCEPT !.toasts = Append(@, [type |-> "error", message |-> msg])]
     ELSE q

\* the catch and finally blocks of handleCreate
CreateFailed(p, message) ==
  LET fallback == CASE p.kind = "users" -> MsgCreateUserFailed
                    [] p.kind = "catalog" -> MsgCreateProductFailed
                    [] p.kind = "orders" -> MsgCreateOrderFailed
      msg == IF message # "" THEN message ELSE fallback
      q == [p EXCEPT !.createError = <<msg>>, !.creating = FALSE,
                     !.create = "idle"]
  IN IF p.kind = "orders"
     THEN [q EXCEPT !.toasts = Append(@, [type |-> "error", message |-> msg])]
     ELSE q

\* the effect of the page: its mount-time loads, each up to its fetch
mountEffect ==
  /\ list.kind # "none"
  /\ list.effect
  /\ LET p == [Fresh EXCEPT !.effect = FALSE] IN
     list' = IF list.kind = "orders"
             THEN LoadBegin(LoadBegin(LoadBegin(p, "mount"), "users"), "products")
             ELSE LoadBegin(p, "mount")
  /\ UNCHANGED <<toaster, localStorage, calls, reg, nav, dash>>

\* the fetch of a load resolves
loadFetchResolved(l, status) ==
  /\ list.kind # "none"
  /\ list.loads[l] = "fetching"
  /\ list' = IF ~RespOk(status)
             THEN Resumed(LoadFailed(Fresh, l, "HTTP " \o DecStr(status)), l)
             ELSE [Fresh EXCEPT !.loads[l] = "json"]
  /\ UNCHANGED <<toaster, localStorage, calls, reg, nav, dash>>

\* the fetch of a load rejects
loadFetchRejected(l) ==
  /\ list.kind # "none"
  /\ list.loads[l] = "fetching"
  /\ list' = Resumed(LoadFailed(Fresh, l, "Failed to fetch"), l)
  /\ UNCHANGED <<toaster, localStorage, calls, reg, nav, dash>>

\* res.json() of a load settles
loadJsonSettled(l, toks) ==
  /\ list.kind # "none"
  /\ list.loads[l] = "json"
  /\ LET parsed == JSONParse(toks) IN
     list' = IF parsed.ok
             THEN Resumed(LoadSucceeded(Fresh, l, parsed.val), l)
             ELSE Resumed(LoadFailed(Fresh, l, MsgSyntaxError), l)
  /\ UNCHANGED <<toaster, localStorage, calls, reg, nav, dash>>

\* the fields of each page's form
FormFields(kind) ==
  CASE kind = "users" -> {"username", "email"}
    [] kind = "catalog" -> {"name", "price", "inStock"}
    [] kind = "orders" -> {"userId", "productId", "quantity"}
    [] OTHER -> {}

\* onChange of an input
onChange(field, value) ==
  /\ field \in FormFields(list.kind)
  /\ list' = [Fresh EXCEPT ![field] = value]
  /\ UNCHANGED <<toaster, localStorage, calls, reg, nav, dash>>

\* the validation of each page's handleCreate: the message it stops with
UsersInvalid(p) == IF p.username = <<>> THEN <<MsgEnterUsername>> ELSE <<>>

\* CatalogInvalid testing priceValue < 0: a price of 0 passes
CatalogInvalidAllowsZero(p) ==
  LET priceValue == parseFloat(p.price) IN
  IF p.name = <<>> THEN <<MsgEnterName>>
  ELSE IF priceValue = <<>> \/ priceValue[1].neg THEN <<MsgEnterPrice>>
  ELSE <<>>

CatalogInvalid(p) ==
  LET priceValue == parseFloat(p.price) IN
  IF p.name = <<>> THEN <<MsgEnterName>>
  ELSE IF priceValue = <<>> \/ NotPositive(priceValue[1]) THEN <<MsgEnterPrice>>
  ELSE <<>>

OrdersInvalid(p) ==
  LET qtyNum == parseInt(p.quantity) IN
  IF p.userId = <<>> THEN <<MsgChooseUser>>
  ELSE IF p.productId = <<>> THEN <<MsgChooseProduct>>
  ELSE IF qtyNum = <<>> \/ qtyNum[1] <= 0 THEN <<MsgQuantity>>
  ELSE <<>>

\* handleCreate up to its return or its await of the POST; the submit button
\* is disabled while creating
handleCreate ==
  /\ list.kind # "none"
  /\ ~list.creating
  /\ LET invalid == CASE list.kind = "users" -> UsersInvalid(list)
                      [] list.kind = "catalog" -> CatalogInvalid(list)
                      [] list.kind = "orders" -> OrdersInvalid(list)
     IN list' = IF invalid # <<>>
                THEN [Fresh EXCEPT !.createError = invalid]
                ELSE [Fresh EXCEPT !.createError = <<>>, !.creating = TRUE,
                                   !.create = "posting"]
  /\ UNCHANGED <<toaster, localStorage, calls, reg, nav, dash>>

\* the POST resolves: the list is loaded again
createResolved(status) ==
  /\ list.kind # "none"
  /\ list.create = "posting"
  /\ list' = IF ~RespOk(status)
             THEN CreateFailed(Fresh, "HTTP " \o DecStr(status))
             ELSE LoadBegin([Fresh EXCEPT !.create = "reloading"], "reload")
  /\ UNCHANGED <<toaster, localStorage, calls, reg, nav, dash>>

\* the POST rejects
createFetchRejected ==
  /\ list.kind # "none"
  /\ list.create = "posting"
  /\ list' = CreateFailed(Fresh, "Failed to fetch")
  /\ UNCHANGED <<toaster, localStorage, calls, reg, nav, dash>>

-----------------------------------------------------------------------------
(* Rendering the routes.                                                   *)

\* the state a page starts with when its route renders it
Mounted(element) ==
  CASE element = "CatalogPage" -> CatalogMounted
    [] element = "UsersPage" -> UsersMounted
    [] element = "OrdersPage" -> OrdersMounted
    [] OTHER -> NoList

\* a NavLink, the header's login button or the address bar
linkClick(to) ==
  /\ nav' = navigate(to, <<>>)
  /\ UNCHANGED <<toaster, localStorage, calls, reg, dash, list>>

\* the routes render for the current location: a protected route goes through
\* RequireAuth, whose <Navigate to="/login" replace /> takes the user to the
\* login page; a page already shown keeps its state, a new one is mounted and
\* the state of the page left is gone unless its load still runs. One Dashboard
\* load runs at a time.
renderRoutes ==
  /\ nav.stale
  /\ LET r == IF Protected(nav.path) THEN RequireAuth(nav.path)
              ELSE [element |-> RouteElement(nav.path), to |-> nav.path,
                    state |-> nav.state]
         element == IF r.element = "Navigate" THEN RouteElement(r.to) ELSE r.element
     IN /\ element = "DashboardPage" /\ nav.shown # "DashboardPage"
             => dash.pc \in {"none", "mounted", "ended"}
        /\ nav' = [path |-> r.to, state |-> r.state, shown |-> element,
                   stale |-> FALSE,
                   denied |-> IF r.element = "Navigate" THEN <<nav.path>> ELSE <<>>]
        /\ dash' = IF element = "DashboardPage" /\ nav.shown # "DashboardPage"
                   THEN DashMounted
                   ELSE IF element # "DashboardPage" /\ dash.pc \in {"mounted", "ended"}
                   THEN DashNone
                   ELSE dash
        /\ list' = IF element = nav.shown THEN list ELSE Mounted(element)
  /\ UNCHANGED <<toaster, localStorage, calls, reg>>

-----------------------------------------------------------------------------
(* The ToastProvider (components/ToastProvider.tsx). The pages keep the    *)
(* showToast calls they make in their own toasts fields; the provider is   *)
(* driven here by showToast itself, with the options the pages pass. Its   *)
(* clock is Date.now(); the browser runs timers of equal delay in the      *)
(* order in which they were set, none before it is due.                    *)

\* the delay of the removal timer (3000 ms), in steps of the clock
ToastDelay == 2
\* the values Date.now() + Math.random() takes between two clock readings: the
\* sum is a double, rounded to one of finitely many values
IdSteps == 2

NoToasts == [now |-> 0, toasts |-> <<>>, timers |-> <<>>]

\* const id = Date.now() + Math.random(); a random of IdSteps is one whose sum
\* is rounded up to the next clock reading
ToastId(now, random) == IdSteps * now + random

\* showToast: the toast is appended and its removal timer is set
showToast(options, random) ==
  /\ Len(toaster.timers) < MaxToasts
  /\ LET id == ToastId(toaster.now, random)
         toast == [id |-> id, type |-> options.type, message |-> options.message]
     IN toaster' = [toaster EXCEPT
                      !.toasts = Append(@, toast),
                      !.timers = Append(@, [id |-> id,
                                            due |-> toaster.now + ToastDelay])]
  /\ UNCHANGED <<localStorage, calls, reg, view>>

\* prev.filter((t) => t.id !== id)
WithoutId(toasts, id) == SelectSeq(toasts, LAMBDA t : t.id # id)

\* the callback of the oldest pending timer runs
timerFired ==
  /\ toaster.timers # <<>>
  /\ toaster.now >= Head(toaster.timers).due
  /\ toaster' = [toaster EXCEPT
                   !.toasts = WithoutId(@, Head(toaster.timers).id),
                   !.timers = Tail(@)]
  /\ UNCHANGED <<localStorage, calls, reg, view>>

\* time passes
tick ==
  /\ toaster.now < MaxNow
  /\ toaster' = [toaster EXCEPT !.now = @ + 1]
  /\ UNCHANGED <<localStorage, calls, reg, view>>

-----------------------------------------------------------------------------
(* Inputs of the model.                                                    *)

BodyExpired == <<Punct("{"), StrTok("detail"), Punct(":"), StrTok("expired"), Punct("}")>>
BodyCreated ==
  <<Punct("{"), StrTok("id"), Punct(":"), NumTok(7), Punct(","),
    StrTok("username"), Punct(":"), StrTok("bob"), Punct(","),
    StrTok("email"), Punct(":"), Lit("null"), Punct("}")>>
BodyAccessToken(t) ==
  <<Punct("{"), StrTok("access_token"), Punct(":"), StrTok(t), Punct("}")>>

UserBob == JObj(<<Member("username", JStr("bob")), Member("email", JNull)>>)

\* responses of the concurrent specification
SpecStatuses == {200, 401, 404}
SpecBodies == {<<>>, BodyExpired, <<Junk>>}
SpecPostBodies == {<<UserBob>>}
LoginBodies == {BodyAccessToken("tok2"), BodyAccessToken(""), <<Lit("null")>>, <<>>}
RegStatuses == {200, 401}
RegBodies == {<<>>, BodyExpired}
FormValues == {"", "bob"}

\* a list of one item, named by its id
BodyItems(id) == <<Punct("["), NumTok(id), Punct("]")>>

\* answers of the services to the list pages
ListStatuses == {200, 401}
ListBodies == {BodyItems(1), BodyItems(2), <<Junk>>}

\* what the user may type or choose in the forms
TextInputs == {<<>>, <<"b", "o", "b">>}
NumberInputs == {<<>>, <<"0">>, <<"2">>, <<"1", ".", "5">>}
\* what a number input can hold, with a fraction below one and a negative number
FormNumbers == NumberInputs \cup {<<"0", ".", "5">>, <<"-", "1">>}
InputsOf(field, numbers) ==
  CASE field \in {"price", "quantity"} -> numbers
    [] field \in {"userId", "productId"} -> {<<>>, <<"7">>}
    [] field = "inStock" -> BOOLEAN
    [] OTHER -> TextInputs

\* what the pages pass to showToast, and the values of Math.random()
ToastOptions ==
  {[type |-> "error", message |-> MsgSessionExpired],
   [type |-> "success", message |-> MsgOrderCreated]}
Randoms == 0..IdSteps

\* answers of the gateway to the Dashboard
DashStatuses == {200, 401, 500}
DashBodies == {<<>>, BodyExpired}

-----------------------------------------------------------------------------
(* The application: client calls, logins, logouts and a registration, in   *)
(* any interleaving.                                                       *)

\* the application opens on the login page
Init ==
  /\ localStorage = EmptyStorage
  /\ calls = [c \in Calls |-> IdleCall]
  /\ reg = RegIdle
  /\ nav = [path |-> "/login", state |-> <<>>, shown |-> "LoginPage",
            stale |-> FALSE, denied |-> <<>>]
  /\ dash = DashNone
  /\ list = NoList
  /\ toaster = NoToasts

ClientStepOf(c, postBodies, statuses, bodies) ==
  \/ apiGet(c)
  \/ \E body \in postBodies : apiPost(c, body)
  \/ \E status \in statuses : fetchResolved(c, status)
  \/ fetchRejected(c)
  \/ \E toks \in bodies : textResolved(c, toks)
  \/ Release(c)

ClientStep(postBodies, statuses, bodies) ==
  \E c \in Calls : ClientStepOf(c, postBodies, statuses, bodies)

SessionStep ==
  \/ loginSuccess("abc123", "alice", "admin")
  \/ logout
  \/ handleLogout

RegisterStep ==
  \/ \E u \in FormValues, e \in FormValues, p \in FormValues : handleSubmit(u, e, p)
  \/ \E status \in RegStatuses, toks \in RegBodies : registerResolved(status, toks)
  \/ \E status \in RegStatuses : loginResolved(status)
  \/ registerFetchRejected
  \/ \E toks \in LoginBodies : loginJsonResolved(toks)

Next ==
  \/ ClientStep(SpecPostBodies, SpecStatuses, SpecBodies)
  \/ SessionStep
  \/ RegisterStep

Spec == Init /\ [][Next]_vars

-----------------------------------------------------------------------------
(* Navigation: the router with the sessions, a registration and one client *)
(* call.                                                                   *)

RouterStep(paths) ==
  \/ \E to \in paths : linkClick(to)
  \/ renderRoutes

\* the answers to a client call in flight
ResponseStep(statuses, bodies) ==
  \E c \in Calls :
    \/ \E status \in statuses : fetchResolved(c, status)
    \/ fetchRejected(c)
    \/ \E toks \in bodies : textResolved(c, toks)

NextRoute ==
  \/ ClientStepOf(1, SpecPostBodies, {200, 401}, {<<>>})
  \/ SessionStep
  \/ RegisterStep
  \/ RouterStep(Paths)

SpecRoute == Init /\ [][NextRoute]_vars

-----------------------------------------------------------------------------
(* The Dashboard: its load over the shared client, with logins, logouts    *)
(* and navigation.                                                         *)

DashStep ==
  \/ \E c \in Calls : load(c)
  \/ healthSettled
  \/ summarySettled

NextDash ==
  \/ DashStep
  \/ ResponseStep(DashStatuses, DashBodies)
  \/ SessionStep
  \/ RouterStep({"/", "/login", "/users"})

SpecDash == Init /\ [][NextDash]_vars

-----------------------------------------------------------------------------
(* The list pages. LoadStep is the mount effect and the answers to the     *)
(* loads named by ids, CreateStep the form and the create handler.         *)

LoadStep(ids, statuses, bodies) ==
  \/ mountEffect
  \/ \E l \in ids, status \in statuses : loadFetchResolved(l, status)
  \/ \E l \in ids : loadFetchRejected(l)
  \/ \E l \in ids, toks \in bodies : loadJsonSettled(l, toks)

CreateStep(statuses, numbers) ==
  \/ \E field \in FormFields(list.kind) :
       \E value \in InputsOf(field, numbers) : onChange(field, value)
  \/ handleCreate
  \/ \E status \in statuses : createResolved(status)
  \/ createFetchRejected

\* the Orders page and its three mount-time loads
NextOrders ==
  \/ LoadStep(LoadIds, ListStatuses, ListBodies)
  \/ loginSuccess("abc123", "alice", "admin")
  \/ logout
  \/ RouterStep({"/orders", "/login"})

SpecOrders == Init /\ [][NextOrders]_vars

\* the requests next to the session: a call of the shared client, the loads of
\* the list pages and a registration, with logins and logouts
NextFrame ==
  \/ ClientStepOf(1, SpecPostBodies, SpecStatuses, {<<>>})
  \/ SessionStep
  \/ RegisterStep
  \/ RouterStep({"/users", "/catalog", "/orders"})
  \/ LoadStep({"mount"}, ListStatuses, {BodyItems(1)})

SpecFrame == Init /\ [][NextFrame]_vars

\* every page that loads a list: the loads of the effects and of the create
\* handlers, and the Dashboard's load; the user stays on the Dashboard until
\* its load has ended
NextLoads ==
  \/ LoadStep({"mount", "reload"}, ListStatuses, ListBodies)
  \/ CreateStep(ListStatuses, {<<"2">>})
  \/ DashStep
  \/ ResponseStep(DashStatuses, {<<>>})
  \/ loginSuccess("abc123", "alice", "admin")
  \/ logout
  \/ /\ dash.pc \notin {"health", "summary"}
     /\ RouterStep({"/", "/catalog", "/users", "/orders"})

SpecLoads == Init /\ [][NextLoads]_vars

\* a create next to the mount-time load of a list page: the GET of the effect
\* is answered with the list as it was, the GET of handleCreate's reload with
\* the list holding the new item
NextOverlap ==
  \/ LoadStep({"mount"}, ListStatuses, {BodyItems(1)})
  \/ LoadStep({"reload"}, ListStatuses, {BodyItems(2)})
  \/ CreateStep(ListStatuses, {<<"2">>})
  \/ loginSuccess("abc123", "alice", "admin")
  \/ RouterStep({"/catalog", "/users", "/orders"})

SpecOverlap == Init /\ [][NextOverlap]_vars

\* the forms: every input of the create forms and of the registration form,
\* submitted or not, with the answers to what they send; the user registers on
\* the registration page and goes on to the list pages when that has succeeded
NextForms ==
  \/ CreateStep(ListStatuses, FormNumbers)
  \/ LoadStep({"mount", "reload"}, {200}, {BodyItems(1)})
  \/ /\ nav.shown = "RegisterPage" \/ reg.pc # "idle"
     /\ RegisterStep
  \/ /\ reg.pc = "idle" /\ reg.error = <<>>
     /\ RouterStep({"/catalog", "/users", "/orders", "/register"})

SpecForms == Init /\ [][NextForms]_vars

\* requests of a first session that are still in flight when a registration
\* replaces it: every request is issued while the login's token is stored
NextLate ==
  \/ loginSuccess("abc123", "alice", "admin")
  \/ /\ getAuthToken = <<"abc123">>
     /\ \E c \in Calls : apiGet(c)
  \/ ResponseStep({200, 401}, {<<>>})
  \/ \E c \in Calls : Release(c)
  \/ RegisterStep

SpecLate == Init /\ [][NextLate]_vars

\* the ToastProvider under every order of showToast calls, timers and time
NextToast ==
  \/ \E options \in ToastOptions, random \in Randoms : showToast(options, random)
  \/ timerFired
  \/ tick

SpecToast == Init /\ [][NextToast]_vars

-----------------------------------------------------------------------------
(* One client call at a time, answered with every status and body of the   *)
(* sets below: the specification of request's response handling.           *)

DecodeStatuses == {200, 201, 299, 300, 401, 404, 500}

Alphabet ==
  {Punct("{"), Punct("}"), Punct("["), Punct("]"), Punct(":"), Punct(","),
   Lit("null"), Lit("true"), NumTok(0), NumTok(7),
   StrTok("detail"), StrTok("message"), StrTok("X"), StrTok(""), Junk, Ws}

\* every token sequence of length at most n
TextsUpTo(n) == UNION {[1..m -> Alphabet] : m \in 0..n}

Scalars ==
  {JNull, JBool(TRUE), JBool(FALSE), JNum(0), JNum(7), JNum(401),
   JStr(""), JStr("X"), JStr("expired")}

\* JSON values a service may answer with
DecodeValues ==
  Scalars
  \cup {JArr(<<>>), JArr(<<JNum(7)>>), JArr(<<JNull, JStr("X")>>),
        JObj(<<>>),
        JObj(<<Member("id", JNum(7)), Member("username", JStr("bob")),
               Member("email", JNull)>>),
        JObj(<<Member("detail", JArr(<<JStr("X"), JNum(7)>>))>>),
        JObj(<<Member("detail", JObj(<<Member("msg", JStr("X"))>>))>>),
        JObj(<<Member("error", JStr("X"))>>)}
  \cup {JObj(<<Member(key, v)>>) : key \in {"detail", "message"}, v \in Scalars}
  \cup {JObj(<<Member("detail", d), Member("message", m)>>) :
          d \in {JStr("X"), JStr(""), JNull}, m \in {JStr("expired"), JStr(""), JNum(0)}}

\* bodies that are not the serialization of a value
OddBodies ==
  {<<Punct("{"), StrTok("detail"), Punct(":"), StrTok("X")>>,
   <<Punct("{"), StrTok("detail"), Punct(":"), StrTok("X"), Punct(","), Punct("}")>>,
   <<Punct("{"), StrTok("detail"), Punct(":"), StrTok("X"), Punct("}"), Junk>>,
   <<Ws, Punct("{"), Ws, StrTok("detail"), Punct(":"), Ws, StrTok("X"), Punct("}"), Ws>>,
   <<Punct("{"), StrTok("detail"), Punct(":"), StrTok("X"), Punct(","),
     StrTok("detail"), Punct(":"), StrTok("expired"), Punct("}")>>,
   <<Punct("["), NumTok(7), Punct(","), Punct("]")>>,
   <<Junk, Ws, Junk, Ws, Junk>>}

DecodeBodies ==
  TextsUpTo(MaxTextLen) \cup {JSONStringify(v) : v \in DecodeValues} \cup OddBodies

DecodePostBodies == {<<>>, <<UserBob>>, <<JNull>>, <<JNum(0)>>, <<JStr("")>>}

NextDecode ==
  \/ ClientStepOf(1, DecodePostBodies, DecodeStatuses, DecodeBodies)
  \/ SessionStep

SpecDecode == Init /\ [][NextDecode]_vars

-----------------------------------------------------------------------------
(* Properties.                                                             *)

\* call c is issued in this step
Issues(c) == calls[c].pc = "idle" /\ calls'[c].pc = "fetching"
\* call c, holding a response, runs to its end in this step
Settles(c) == calls[c].pc = "reading" /\ calls'[c].pc = "done"
\* call c has ended after a response of a status in the set
DoneWith(c, statuses) ==
  calls[c].pc = "done" /\ calls[c].status # <<>> /\ calls[c].status[1] \in statuses
Ok2xx == 200..299
NonOk == DecodeStatuses \ Ok2xx
BodyDetail(x) == <<Punct("{"), StrTok("detail"), Punct(":"), StrTok(x), Punct("}")>>

\* C1: a call of the shared client that is answered 401 ends by throwing, and in
\* the state in which it has ended (the first the caller can observe) no authToken
\* is stored, whatever the session was before.
C1_TokenRemovedBy401 ==
  [][\A c \in Calls :
       (Settles(c) /\ calls[c].status = <<401>>) =>
         /\ calls'[c].outcome[1].kind = "throw"
         /\ getItem(localStorage', "authToken") = <<>>]_vars

\* a call answered 401 has ended, after a registration had written a session
C1_Witness ==
  \E c \in Calls :
    /\ DoneWith(c, {401})
    /\ calls[c].outcome[1].kind = "throw"
    /\ getItem(localStorage, "authToken") = <<>>
    /\ nav.path = "/"

\* C2: a call answered 401 clears the session as clear() does: afterwards a session
\* read yields no token, no username and the default role "user".
C2_SessionClearedBy401 ==
  [][\A c \in Calls :
       (Settles(c) /\ calls[c].status = <<401>>) =>
         /\ getItem(localStorage', "authToken") = <<>>
         /\ getItem(localStorage', "authUsername") = <<>>
         /\ getItem(localStorage', "authRole") = <<>>]_vars

\* C3: a request issued while a token is present carries the header
\* Authorization: Bearer <the token stored when it is issued>.
C3_BearerAttached ==
  [][\A c \in Calls :
       (Issues(c) /\ useAuth.isAuthenticated) =>
         LET h == calls'[c].req[1].headers IN
         /\ "Authorization" \in DOMAIN h
         /\ h["Authorization"] = "Bearer " \o localStorage["authToken"]
         /\ h["Authorization"] \in {"Bearer abc123", "Bearer tok2"}]_vars

\* a POST in flight that carries the token the registration stored
C3_Witness ==
  \E c \in Calls :
    /\ calls[c].pc = "fetching"
    /\ calls[c].req[1].method = "POST"
    /\ "Authorization" \in DOMAIN calls[c].req[1].headers
    /\ calls[c].req[1].headers["Authorization"] = "Bearer tok2"

\* C4: a request issued while no token is present carries no Authorization header;
\* its only header is Content-Type: application/json.
C4_NoAuthorizationWithoutToken ==
  [][\A c \in Calls :
       (Issues(c) /\ ~useAuth.isAuthenticated) =>
         LET h == calls'[c].req[1].headers IN
         /\ DOMAIN h = {"Content-Type"}
         /\ h["Content-Type"] = "application/json"]_vars

\* a GET in flight without credentials while the header's logout has emptied
\* the session a login had written
C4_Witness ==
  \E c \in Calls :
    /\ calls[c].pc = "fetching"
    /\ calls[c].req[1].method = "GET"
    /\ DOMAIN calls[c].req[1].headers = {"Content-Type"}
    /\ getItem(localStorage, "authToken") = <<>>
    /\ getItem(localStorage, "authRole") = <<"admin">>

\* C5: a call that obtained no response fails with an ApiError carrying message,
\* status and data, the shape of an HTTP-level failure.
C5_TransportFailureIsApiError ==
  \A c \in Calls :
    (calls[c].pc = "done" /\ calls[c].status = <<>>) =>
      /\ calls[c].outcome[1].kind = "throw"
      /\ calls[c].outcome[1].name = "ApiError"
      /\ calls[c].outcome[1].status # <<>>
      /\ calls[c].outcome[1].data # <<>>

\* the data the claims expect for a body: null for the empty body, v for the
\* serialization of v, the parsed value of other valid JSON, else the raw text
ExpectedData(toks) ==
  IF toks = <<>> THEN JNull
  ELSE IF \E v \in DecodeValues : toks = JSONStringify(v)
       THEN CHOOSE v \in DecodeValues : toks = JSONStringify(v)
  ELSE IF JSONParse(toks).ok THEN JSONParse(toks).val
  ELSE JStr(RawText(toks))

\* C6: a response with a non-2xx status never yields a success value: the call
\* throws an ApiError with the response's status and the decoded body as data.
C6_NonOkRaisesApiError ==
  \A c \in Calls :
    DoneWith(c, NonOk) =>
      /\ calls[c].outcome[1].kind = "throw"
      /\ calls[c].outcome[1].name = "ApiError"
      /\ calls[c].outcome[1].value = <<>>
      /\ calls[c].outcome[1].status = calls[c].status
      /\ calls[c].outcome[1].data = <<ExpectedData(calls[c].text[1])>>

\* a 404 with an HTML body has been thrown as an ApiError holding the raw text
C6_Witness ==
  \E c \in Calls :
    /\ DoneWith(c, {404})
    /\ calls[c].text = <<(<<Junk>>)>>
    /\ calls[c].outcome[1].name = "ApiError"
    /\ calls[c].outcome[1].status = <<404>>
    /\ calls[c].outcome[1].data = <<JStr("<html>")>>

DetailStrings == {"", "X", "expired"}

\* C7 as claimed: for a non-2xx response with body {"detail": X}, X any string,
\* the message of the ApiError is X.
C7_DetailIsMessage ==
  \A c \in Calls : \A x \in DetailStrings :
    (DoneWith(c, NonOk) /\ calls[c].text = <<BodyDetail(x)>>) =>
      calls[c].outcome[1].message = x

\* C7 as amended: for a non-2xx response with body {"detail": X}, X any non-empty
\* string, the message of the ApiError is X.
C7_NonEmptyDetailIsMessage ==
  \A c \in Calls : \A x \in DetailStrings \ {""} :
    (DoneWith(c, NonOk) /\ calls[c].text = <<BodyDetail(x)>>) =>
      calls[c].outcome[1].message = x

\* the scenario: 401 with {"detail":"expired"} has thrown "expired" and the
\* credential and the display name are gone
C7_Witness ==
  \E c \in Calls :
    /\ DoneWith(c, {401})
    /\ calls[c].text = <<BodyDetail("expired")>>
    /\ calls[c].outcome[1].message = "expired"
    /\ getItem(localStorage, "authToken") = <<>>
    /\ getItem(localStorage, "authUsername") = <<>>
    /\ getItem(localStorage, "authRole") = <<"admin">>

\* the body is a JSON object with a member named detail or message
HasDetailOrMessage(toks) ==
  LET p == JSONParse(toks) IN
  /\ p.ok
  /\ p.val.k = "obj"
  /\ \E i \in 1..Len(p.val.o) : p.val.o[i].key \in {"detail", "message"}

StatusText == (300 :> "300") @@ (401 :> "401") @@ (404 :> "404") @@ (500 :> "500")

\* C8: for a non-2xx response whose body has neither a detail nor a message field
\* (empty, not JSON, or JSON that is no such object), the message is
\* "Request failed with status <code>".
C8_DefaultMessage ==
  \A c \in Calls :
    (DoneWith(c, NonOk) /\ ~HasDetailOrMessage(calls[c].text[1])) =>
      calls[c].outcome[1].message =
        "Request failed with status " \o StatusText[calls[c].status[1]]

\* a 500 with an empty body has thrown the synthesized message
C8_Witness ==
  \E c \in Calls :
    /\ DoneWith(c, {500})
    /\ calls[c].text = <<(<<>>)>>
    /\ calls[c].outcome[1].message = "Request failed with status 500"

CreatedUser ==
  JObj(<<Member("id", JNum(7)), Member("username", JStr("bob")),
         Member("email", JNull)>>)

\* C9: for a 2xx response whose body is the serialization of a JSON value v, the
\* call returns v itself; a POST answered 201 with the created user returns it.
C9_SuccessIsParsedBody ==
  \A c \in Calls :
    DoneWith(c, Ok2xx) =>
      /\ \A v \in DecodeValues :
           calls[c].text = <<JSONStringify(v)>> =>
             /\ calls[c].outcome[1].kind = "return"
             /\ calls[c].outcome[1].value = <<v>>
      /\ calls[c].text = <<BodyCreated>> => calls[c].outcome[1].value = <<CreatedUser>>

\* a 201 with the created user has been returned
C9_Witness ==
  \E c \in Calls :
    /\ DoneWith(c, {201})
    /\ calls[c].text = <<BodyCreated>>
    /\ calls[c].outcome[1].kind = "return"
    /\ calls[c].outcome[1].value = <<CreatedUser>>

\* C10: decoding a body never fails: every call that got a response ends as a
\* return or an ApiError, with null for the empty body, the parsed value for valid
\* JSON and the raw text otherwise; a 2xx response always ends as a return.
C10_DecodingNeverFails ==
  \A c \in Calls :
    DoneWith(c, DecodeStatuses) =>
      LET o == calls[c].outcome[1]
          toks == calls[c].text[1]
          d == IF o.kind = "return" THEN o.value ELSE o.data
      IN /\ o.kind = "return" \/ o.name = "ApiError"
         /\ calls[c].status[1] \in Ok2xx => o.kind = "return"
         /\ toks = <<>> => d = <<JNull>>
         /\ (toks # <<>> /\ JSONParse(toks).ok) => d = <<JSONParse(toks).val>>
         /\ (toks # <<>> /\ ~JSONParse(toks).ok) => d = <<JStr(RawText(toks))>>
         /\ toks = <<Junk>> => d = <<JStr("<html>")>>

\* a 200 with an HTML body has been returned as the raw text
C10_Witness ==
  \E c \in Calls :
    /\ DoneWith(c, {200})
    /\ calls[c].text = <<(<<Junk>>)>>
    /\ calls[c].outcome[1].kind = "return"
    /\ calls[c].outcome[1].value = <<JStr("<html>")>>

-----------------------------------------------------------------------------
(* The Auth Gate and the session's transitions.                            *)

\* the token slot holds a non-empty string
TokenPresent(store) == "authToken" \in DOMAIN store /\ store["authToken"] # ""
\* the routes render for a new location in this step
Renders == nav.stale /\ ~nav'.stale

\* C11: isAuthenticated is true exactly when the store holds a token, whatever the
\* username and role slots hold; every time the routes render a protected path,
\* RequireAuth shows the page exactly when the store holds a token at that moment
\* and otherwise takes the user to /login.
C11_GateFollowsToken ==
  [][/\ useAuth.isAuthenticated = TokenPresent(localStorage)
     /\ (Renders /\ Protected(nav.path)) =>
          IF TokenPresent(localStorage)
          THEN /\ nav'.path = nav.path
               /\ nav'.shown = RouteElement(nav.path)
               /\ nav'.denied = <<>>
          ELSE /\ nav'.path = "/login"
               /\ nav'.shown = "LoginPage"
               /\ nav'.denied = <<nav.path>>]_vars

\* after a 401 removed the token of a session whose role is still stored, the
\* gate has turned the user away from /users
C11_Witness ==
  /\ nav.denied = <<"/users">>
  /\ getItem(localStorage, "authRole") = <<"admin">>
  /\ getItem(localStorage, "authToken") = <<>>
  /\ DoneWith(1, {401})

\* a call of the shared client ends in this step without a 401: a response of
\* another status, or no response at all
EndsWithout401(c) ==
  \/ Settles(c) /\ calls[c].status # <<401>>
  \/ calls[c].pc = "fetching" /\ calls'[c].pc = "done"
\* a request of a list page is answered in this step
ListAnswered ==
  /\ list.kind # "none"
  /\ list'.kind = list.kind
  /\ \E l \in LoadIds : list.loads[l] # "idle" /\ list'.loads[l] # list.loads[l]
\* a request of the registration page is answered in this step
RegisterAnswered == reg.pc \in {"registering", "loggingIn", "loginJson"} /\ reg' # reg
\* the registration runs to its successful end in this step
RegisterSucceeds == reg.pc = "loginJson" /\ reg'.pc = "idle" /\ reg'.error = <<>>
\* an explicit logout, or a 401 received by the shared client
LogoutOr401 ==
  \/ logout
  \/ handleLogout
  \/ \E c \in Calls : Settles(c) /\ calls[c].status = <<401>>

\* C12: the session leaves the Authenticated state only through a logout or a 401
\* of the shared client; every other end of a client call and every answer to a
\* direct request of the list pages and of the registration page leaves the three
\* slots as they were.
C12_OnlyLogoutOr401 ==
  [][/\ (TokenPresent(localStorage) /\ ~TokenPresent(localStorage')) => LogoutOr401
     /\ ((\E c \in Calls : EndsWithout401(c)) \/ ListAnswered \/ RegisterAnswered)
          => localStorage' = localStorage]_vars

\* C12, amended: as C12, except that the registration that runs to its end
\* overwrites token and username, and ends the session when the token it stores
\* is empty.
C12_FrameOfSession ==
  [][/\ (TokenPresent(localStorage) /\ ~TokenPresent(localStorage')) =>
          \/ LogoutOr401
          \/ RegisterSucceeds /\ getItem(localStorage', "authToken") = <<"">>
     /\ ((\E c \in Calls : EndsWithout401(c)) \/ ListAnswered
           \/ (RegisterAnswered /\ ~RegisterSucceeds))
          => localStorage' = localStorage
     /\ RegisterSucceeds =>
          /\ getItem(localStorage', "authUsername") = <<reg.username>>
          /\ getItem(localStorage', "authToken") # <<>>
          /\ getItem(localStorage', "authRole") = getItem(localStorage, "authRole")]_vars

\* the Users page's load was answered 401 and a client call 404, and the session
\* of the login is whole
C12_Witness ==
  /\ list.kind = "users"
  /\ list.error = <<"HTTP 401">>
  /\ DoneWith(1, {404})
  /\ localStorage = [k \in StorageKeys |->
                       CASE k = "authToken" -> "abc123"
                         [] k = "authUsername" -> "alice"
                         [] OTHER -> "admin"]

\* the token slot is written in this step
TokenWritten ==
  /\ getItem(localStorage', "authToken") # <<>>
  /\ getItem(localStorage', "authToken") # getItem(localStorage, "authToken")

\* C13: only a login or a registration that succeeded writes the token or makes
\* the session authenticated; a registration writes it only after both of its
\* requests were answered 2xx, and every other answer to them (a non-2xx status,
\* a rejected fetch, an unreadable body) leaves token and username as they were
\* and issues no navigation.
C13_OnlyLoginAuthenticates ==
  [][/\ ((~TokenPresent(localStorage) /\ TokenPresent(localStorage')) \/ TokenWritten)
          => (loginSuccess("abc123", "alice", "admin") \/ RegisterSucceeds)
     /\ RegisterSucceeds =>
          /\ reg.res # <<>> /\ reg.res[1] \in 200..299
          /\ reg.loginRes # <<>> /\ reg.loginRes[1] \in 200..299
     /\ (RegisterAnswered /\ ~RegisterSucceeds) =>
          /\ getItem(localStorage', "authToken") = getItem(localStorage, "authToken")
          /\ getItem(localStorage', "authUsername") = getItem(localStorage, "authUsername")
          /\ nav' = nav]_vars

\* the auto-login of a registration was refused: the page shows the error, nobody
\* is logged in and nothing was navigated
C13_Witness ==
  /\ reg.pc = "idle"
  /\ reg.error = <<MsgAutoLogin(401)>>
  /\ localStorage = EmptyStorage
  /\ nav.path = "/login" /\ ~nav.stale

\* C14: an explicit logout, by the header's button or by useAuth().logout, removes
\* token, username and role: the next session read yields no token, no username
\* and the default role "user".
C14_LogoutDestroysSession ==
  [][(logout \/ handleLogout) =>
       /\ getItem(localStorage', "authToken") = <<>>
       /\ getItem(localStorage', "authUsername") = <<>>
       /\ getItem(localStorage', "authRole") = <<>>]_vars

HalfWritten(store) ==
  getItem(store, "authToken") # <<>> /\ getItem(store, "authUsername") = <<>>

\* C16: the registration that succeeds writes token and username in the step that
\* issues the navigation to "/", so the gate evaluated for "/" finds an
\* authenticated session; no state holds a token without a username.
C16_SessionWrittenBeforeNavigation ==
  [][/\ ~HalfWritten(localStorage)
     /\ RegisterSucceeds =>
          /\ nav' = navigate("/", <<>>)
          /\ getItem(localStorage', "authUsername") = <<reg.username>>
          /\ ~HalfWritten(localStorage')
          /\ TokenPresent(localStorage')]_vars

\* C16, amended: as C16, but the session found for "/" is authenticated exactly
\* when the access_token that was stored is not the empty string.
C16_SessionWrittenAsAnswered ==
  [][/\ ~HalfWritten(localStorage)
     /\ RegisterSucceeds =>
          /\ nav' = navigate("/", <<>>)
          /\ getItem(localStorage', "authUsername") = <<reg.username>>
          /\ ~HalfWritten(localStorage')
          /\ TokenPresent(localStorage') = (getItem(localStorage', "authToken") # <<"">>)]_vars

\* a registration has just succeeded: both slots are written and the navigation
\* to "/" is issued, not yet rendered
C16_Witness ==
  /\ nav.path = "/" /\ nav.stale
  /\ reg.pc = "idle" /\ reg.error = <<>> /\ reg.username = "bob"
  /\ getItem(localStorage, "authToken") = <<"tok2">>
  /\ getItem(localStorage, "authUsername") = <<"bob">>

\* C17: whenever RequireAuth has turned the user away from a protected path, the
\* location of the login page carries that path as the place to return to.
C17_RedirectCarriesDestination ==
  nav.denied # <<>> =>
    /\ nav.path = "/login"
    /\ nav.state = <<[from |-> nav.denied[1]]>>

-----------------------------------------------------------------------------
(* The loads of the pages.                                                 *)

\* the state each mount-time load of the Orders page is to set, and no other
OrdersData(l) ==
  CASE l = "mount" -> "orders" [] l = "users" -> "users" [] l = "products" -> "products"
OrdersError(l) ==
  CASE l = "mount" -> "ordersError" [] l = "users" -> "usersError"
    [] l = "products" -> "productsError"
MountLoads == {"mount", "users", "products"}
\* load l of the mounted page runs to its end in this step
LoadEnds(l) ==
  /\ list.kind # "none" /\ list'.kind = list.kind
  /\ list.loads[l] # "idle" /\ list'.loads[l] = "idle"

\* C18: on the Orders page, whichever of the three mount-time loads ends and
\* however the other two stand, it leaves the data and the error of the other two
\* sources as they were; if it failed it sets its own error and keeps its own
\* list, if it succeeded it installs the list it was answered and has no error.
C18_OrdersLoadsIndependent ==
  [][list.kind = "orders" =>
       /\ (list.effect /\ list'.kind = "orders" /\ ~list'.effect) =>
            \A l \in MountLoads : list'.loads[l] = "fetching"
       /\ \A l \in MountLoads :
            LoadEnds(l) =>
              /\ \A m \in MountLoads \ {l} :
                   /\ list'[OrdersData(m)] = list[OrdersData(m)]
                   /\ list'[OrdersError(m)] = list[OrdersError(m)]
                   /\ list'.loads[m] = list.loads[m]
              /\ \/ /\ list'[OrdersError(l)] # <<>>
                    /\ list'[OrdersData(l)] = list[OrdersData(l)]
                 \/ /\ list'[OrdersError(l)] = <<>>
                    /\ list.loads[l] = "json"
                    /\ \E toks \in ListBodies :
                         /\ JSONParse(toks).ok
                         /\ list'[OrdersData(l)] = JSONParse(toks).val]_vars

\* the orders and the products are loaded, the users were refused: one error, and
\* the two lists installed
C18_Witness ==
  /\ list.kind = "orders"
  /\ list.loads = NoLoads
  /\ list.orders = JArr(<<JNum(1)>>) /\ list.ordersError = <<>>
  /\ list.users = JArr(<<>>) /\ list.usersError = <<"HTTP 401">>
  /\ list.products = JArr(<<JNum(2)>>) /\ list.productsError = <<>>

\* the Dashboard's load takes the result of the call it awaits in this step
LoadResumes(awaiting) == dash.pc = awaiting /\ dash'.pc # awaiting

\* C19: the Dashboard's load requests /summary only in the step in which its
\* /health call has settled. When either call failed with status 401 the load
\* shows the session-expired toast, navigates to /login with from = "/", turns
\* loading off and ends without a further request; when /health failed otherwise
\* (or succeeded) /summary is requested; a load that ended requests nothing.
C19_DashboardLoadInSequence ==
  [][/\ dash.issued \in {<<>>, <<"/health">>, <<"/health", "/summary">>}
     /\ (dash'.issued # dash.issued /\ dash'.issued # <<>>
           /\ dash'.issued[Len(dash'.issued)] = "/summary")
          => dash.pc = "health" /\ calls[dash.call].pc = "done"
     /\ \A awaiting \in {"health", "summary"} :
          LoadResumes(awaiting) =>
            LET o == calls[dash.call].outcome[1] IN
            IF o.kind = "throw" /\ o.status = <<401>>
            THEN /\ nav'.path = "/login" /\ nav'.stale
                 /\ nav'.state = <<[from |-> "/"]>>
                 /\ dash'.toasts = <<[type |-> "error", message |-> MsgSessionExpired]>>
                 /\ ~dash'.loading
                 /\ dash'.pc = "ended"
                 /\ dash'.issued = dash.issued
                 /\ calls'[dash.call].pc = "idle"
            ELSE IF awaiting = "health"
            THEN /\ dash'.pc = "summary"
                 /\ dash'.issued = <<"/health", "/summary">>
                 /\ calls'[dash'.call].pc = "fetching"
                 /\ (o.kind = "throw") = (dash'.healthError # <<>>)
                 /\ nav' = nav
            ELSE /\ dash'.pc = "ended"
                 /\ ~dash'.loading
                 /\ dash'.issued = dash.issued
                 /\ nav' = nav
     /\ (dash.pc = "ended" /\ dash'.pc = "ended") =>
          dash'.issued = dash.issued /\ ~dash'.loading]_vars

\* /health was not reachable, /summary was then requested and answered 401: the
\* load has ended with the toast and the redirect, loading off
C19_Witness ==
  /\ dash.pc = "ended"
  /\ dash.issued = <<"/health", "/summary">>
  /\ dash.healthError = <<"Failed to fetch">>
  /\ dash.summaryError = <<"expired">>
  /\ dash.toasts = <<[type |-> "error", message |-> MsgSessionExpired]>>
  /\ ~dash.loading
  /\ nav.path = "/login" /\ nav.state = <<[from |-> "/"]>>

\* the state the list load of each page is to set
MainData(kind) ==
  CASE kind = "catalog" -> "products" [] kind = "users" -> "users"
    [] kind = "orders" -> "orders"
MainError(kind) == IF kind = "orders" THEN "ordersError" ELSE "error"
MainLoading(kind) == IF kind = "orders" THEN "ordersLoading" ELSE "loading"
\* the calls of the list load: by the effect and by handleCreate
ListLoads == {"mount", "reload"}
\* the Dashboard's load runs to its end in this step
DashEnds == dash.pc \in {"health", "summary"} /\ dash'.pc = "ended"
\* loading is true only while something is still to settle
LoadingOnlyWhilePending ==
  /\ (list.kind # "none" /\ list[MainLoading(list.kind)]) =>
       list.effect \/ \E l \in ListLoads : list.loads[l] # "idle"
  /\ (dash.pc = "ended") => ~dash.loading

\* C20: when a list load ends (Catalog, Users, Orders) or the Dashboard's load
\* does, loading is false and the load's error is non-null exactly when its
\* request failed, by a non-2xx status or a rejected fetch; loading is true only
\* while a request has not settled.
C20_LoadEndsWithErrorIffFailed ==
  [][/\ LoadingOnlyWhilePending
     /\ \A l \in ListLoads :
          LoadEnds(l) =>
            /\ ~list'[MainLoading(list.kind)]
            /\ (list'[MainError(list.kind)] # <<>>) = (list.loads[l] = "fetching")
     /\ LoadResumes("health") =>
          (dash'.healthError # <<>>) = (calls[dash.call].outcome[1].kind = "throw")
     /\ LoadResumes("summary") =>
          (dash'.summaryError # <<>>) = (calls[dash.call].outcome[1].kind = "throw")
     /\ DashEnds => ~dash'.loading]_vars

\* C20, amended: as C20 for loading and for the Dashboard; a list load that
\* begins clears its error, one whose request failed or whose 2xx body is not
\* JSON sets it, and one that succeeded installs its list and leaves the error
\* as it finds it.
C20_LoadEndsWithLoadingOff ==
  [][/\ LoadingOnlyWhilePending
     /\ \A l \in ListLoads :
          /\ (list.kind # "none" /\ list'.kind = list.kind
                /\ list.loads[l] = "idle" /\ list'.loads[l] = "fetching") =>
               /\ list'[MainLoading(list.kind)]
               /\ list'[MainError(list.kind)] = <<>>
          /\ LoadEnds(l) =>
               /\ ~list'[MainLoading(list.kind)]
               /\ list.loads[l] = "fetching" =>
                    /\ list'[MainError(list.kind)] # <<>>
                    /\ list'[MainData(list.kind)] = list[MainData(list.kind)]
               /\ list.loads[l] = "json" =>
                    \/ /\ list'[MainError(list.kind)] = <<MsgSyntaxError>>
                       /\ list'[MainData(list.kind)] = list[MainData(list.kind)]
                    \/ /\ list'[MainError(list.kind)] = list[MainError(list.kind)]
                       /\ \E toks \in ListBodies :
                            /\ JSONParse(toks).ok
                            /\ list'[MainData(list.kind)] = JSONParse(toks).val
     /\ LoadResumes("health") =>
          (dash'.healthError # <<>>) = (calls[dash.call].outcome[1].kind = "throw")
     /\ LoadResumes("summary") =>
          (dash'.summaryError # <<>>) = (calls[dash.call].outcome[1].kind = "throw")
     /\ DashEnds => ~dash'.loading]_vars

\* on the Catalog page the load of handleCreate has installed its list while the
\* error of the mount-time load, which failed after it began, is still shown
C20_Witness ==
  /\ list.kind = "catalog"
  /\ list.loads = NoLoads
  /\ ~list.loading
  /\ list.products = JArr(<<JNum(2)>>)
  /\ list.error = <<"HTTP 401">>
  /\ ~list.creating

-----------------------------------------------------------------------------
\* the 401 answer of call c is handled in this step
Handles401(c) ==
  calls[c].pc = "reading" /\ calls'[c].pc = "done" /\ calls[c].status = <<401>>

\* C21: a 401 answer removes only the credential that was attached to its
\* request: every request of SpecLate carries the token of the login, so when
\* a registration has stored its own token by the time the 401 is handled, the
\* step that handles it leaves the stored session as it is.
C21_Late401KeepsNewerSession ==
  [][\A c \in Calls :
       (Handles401(c) /\ getAuthToken = <<"tok2">>)
       => localStorage' = localStorage]_vars

-----------------------------------------------------------------------------
\* the list as the reload of a create is answered in SpecOverlap
ReloadedList == JArr(<<JNum(2)>>)

\* C22: when the loads of a list overlap, the loading flag is not false while
\* one of them is in flight, and the mount-time load, issued first, never
\* replaces the list shown from the answer to the reload issued after it.
C22_NewestLoadWins ==
  [][list.kind # "none" =>
       /\ (\E l \in ListLoads : list.loads[l] # "idle")
            => list[MainLoading(list.kind)]
       /\ (LoadEnds("mount") /\ list[MainData(list.kind)] = ReloadedList)
            => list'[MainData(list.kind)] = ReloadedList]_vars

-----------------------------------------------------------------------------
\* the values of the form of a page, and those it starts with
FormOf(p) == [f \in FormFields(p.kind) |-> p[f]]
DefaultOf(field) ==
  CASE field = "inStock" -> TRUE [] field = "quantity" -> <<"1">> [] OTHER -> <<>>
FormDefaults(kind) == [f \in FormFields(kind) |-> DefaultOf(f)]
\* the page shown stays mounted in this step
StaysMounted == list.kind # "none" /\ list'.kind = list.kind /\ ~Renders
\* steps of handleCreate: the POST failed, the POST was answered 2xx, the
\* reload it awaited has settled
CreateFails == StaysMounted /\ list.create = "posting" /\ list'.create = "idle"
CreateReloads == StaysMounted /\ list.create = "posting" /\ list'.create = "reloading"
CreateEnds == StaysMounted /\ list.create = "reloading" /\ list'.create = "idle"
SuccessToast == [type |-> "success", message |-> MsgOrderCreated]
Shows(p, toast) == \E i \in 1..Len(p.toasts) : p.toasts[i] = toast

\* C23: a create whose POST is non-2xx or rejected sets createError, issues no
\* reload, keeps the form and shows no success toast; a create whose POST is
\* 2xx issues one reload, and the form is reset only when that reload has
\* settled; creating is false when the handler ends; a POST is sent by a
\* submission only, and a reload of the create handler after a 2xx POST only.
C23_FailedCreateIsTerminal ==
  [][/\ CreateFails =>
          /\ list'.createError # <<>>
          /\ list'.loads = list.loads
          /\ FormOf(list') = FormOf(list)
          /\ ~Shows(list', SuccessToast)
          /\ ~list'.creating
     /\ CreateReloads =>
          /\ list.loads["reload"] = "idle" /\ list'.loads["reload"] = "fetching"
          /\ \A l \in LoadIds \ {"reload"} : list'.loads[l] = list.loads[l]
          /\ FormOf(list') = FormOf(list)
          /\ list'.creating
     /\ CreateEnds =>
          /\ LoadEnds("reload")
          /\ FormOf(list') = FormDefaults(list.kind)
          /\ ~list'.creating
          /\ list'.createError = <<>>
     /\ (StaysMounted /\ list.create = "reloading" /\ list'.create = "reloading") =>
          /\ list'.loads["reload"] # "idle"
          /\ list'.creating
          /\ FormOf(list') # FormOf(list) =>
               \E field \in FormFields(list.kind) :
                 \E value \in InputsOf(field, NumberInputs) : onChange(field, value)
     /\ (StaysMounted /\ list.loads["reload"] = "idle"
           /\ list'.loads["reload"] # "idle") => CreateReloads
     /\ (StaysMounted /\ list.create # "posting" /\ list'.create = "posting") =>
          handleCreate]_vars

\* on the Orders page a create was answered 401: the form is as it was filled
\* in, the error is shown and toasted, and no reload runs
C23_Witness ==
  /\ list.kind = "orders"
  /\ list.create = "idle"
  /\ ~list.creating
  /\ list.createError = <<"HTTP 401">>
  /\ list.userId # <<>> /\ list.productId # <<>> /\ list.quantity = <<"2">>
  /\ list.loads["reload"] = "idle"
  /\ Shows(list, [type |-> "error", message |-> "HTTP 401"])

-----------------------------------------------------------------------------
\* the inputs of FormNumbers that parseFloat reads as a number above 0, and
\* those of FormNumbers and the quantity the form starts with that parseInt
\* reads as an integer above 0 ("1.5" is read as 1)
PositivePrices == {<<"2">>, <<"1", ".", "5">>, <<"0", ".", "5">>}
PositiveQuantities == {<<"1">>, <<"2">>, <<"1", ".", "5">>}
\* the form of the page may be sent
ValidForm(p) ==
  CASE p.kind = "users" -> p.username # <<>>
    [] p.kind = "catalog" -> p.name # <<>> /\ p.price \in PositivePrices
    [] p.kind = "orders" ->
         /\ p.userId # <<>> /\ p.productId # <<>>
         /\ p.quantity \in PositiveQuantities
    [] OTHER -> FALSE
\* the POST of a create, the POST /register is sent in this step
CreatePosts == StaysMounted /\ list.create # "posting" /\ list'.create = "posting"
RegisterPosts == reg.pc = "idle" /\ reg'.pc = "registering"

\* C24: a create form is sent only when it is valid (Catalog: a name and a
\* price above 0; Users: a username; Orders: a user, a product and a quantity
\* above 0), the registration only when username, email and password are all
\* given; a submission that is refused sets the form's error, sends nothing and
\* leaves creating/loading false, and a valid one is sent.
C24_NoPostOfInvalidForm ==
  [][/\ CreatePosts => ValidForm(list)
     /\ handleCreate =>
          IF ValidForm(list)
          THEN CreatePosts /\ list'.creating /\ list'.createError = <<>>
          ELSE /\ list'.createError # <<>>
               /\ list'.create = "idle"
               /\ ~list'.creating
               /\ list'.loads = list.loads
     /\ RegisterPosts => reg'.username # ""
     /\ \A u \in FormValues, e \in FormValues, p \in FormValues :
          handleSubmit(u, e, p) =>
            IF u # "" /\ e # "" /\ p # ""
            THEN RegisterPosts /\ reg'.loading /\ reg'.error = <<>>
            ELSE /\ reg'.error = <<MsgFillAll>>
                 /\ reg'.pc = "idle"
                 /\ ~reg'.loading]_vars

\* the Orders form was submitted with a user, a product and the quantity 0.5:
\* it was refused with the quantity message and nothing is being sent
C24_Witness ==
  /\ list.kind = "orders"
  /\ list.userId # <<>> /\ list.productId # <<>>
  /\ list.quantity = <<"0", ".", "5">>
  /\ list.createError = <<MsgQuantity>>
  /\ list.create = "idle"
  /\ ~list.creating

-----------------------------------------------------------------------------
\* position of the first toast with the given id, 0 when there is none
RECURSIVE FirstWithId(_, _, _)
FirstWithId(toasts, id, i) ==
  IF i > Len(toasts) THEN 0
  ELSE IF toasts[i].id = id THEN i
  ELSE FirstWithId(toasts, id, i + 1)
\* the toasts without the one at position i, the others in their order
RemoveAt(toasts, i) ==
  [j \in 1..(Len(toasts) - 1) |-> IF j < i THEN toasts[j] ELSE toasts[j + 1]]

\* C25: the toasts shown change only by showToast appending one and by a timer
\* that is due removing the toast it was set with: exactly that toast goes, and
\* every other toast stays, in the order shown.
C25_TimerRemovesItsToastOnly ==
  [][toaster'.toasts # toaster.toasts =>
       \/ /\ Len(toaster'.toasts) = Len(toaster.toasts) + 1
          /\ SubSeq(toaster'.toasts, 1, Len(toaster.toasts)) = toaster.toasts
       \/ /\ toaster.timers # <<>>
          /\ toaster.now >= Head(toaster.timers).due
          /\ LET i == FirstWithId(toaster.toasts, Head(toaster.timers).id, 1) IN
             i # 0 /\ toaster'.toasts = RemoveAt(toaster.toasts, i)]_vars

=============================================================================
